---- MODULE Spec2Model ----
(***************************************************************************)
(* Model of the shell emulator of src/emulator.py (class ShellEmulator):   *)
(* a zip archive is extracted into a working area, an index of its         *)
(* entries is built, the commands ls, cd, cp, head, clear and exit run     *)
(* against it, and the working area is packed back on shutdown.            *)
(*                                                                         *)
(* Python strings are sequences of one-character strings, so that          *)
(* startswith, strip, split, os.path.normpath and sorted() are computed    *)
(* as Python computes them (POSIX os.path).                                *)
(***************************************************************************)
EXTENDS Integers, Sequences, FiniteSets, TLC

\* ------------------------------------------------------------------ bounds
\* what the user enters in all: command lines typed at a prompt and launches
\* of the emulator after the first
MaxInputs == 2

\* the segments of a path argument of head and cp
MaxSegs == 3

\* ------------------------------------------------------- program constants
\* head_file: for _ in range(10)
HeadLimit == 10

\* ---------------------------------------------------------- Python strings
Slash == "/"
Dot == "."
Space == " "
Newline == "\n"

\* ord(c) of the characters the model uses
Ord(c) ==
    CASE c = "\n" -> 10
      [] c = " " -> 32
      [] c = "." -> 46
      [] c = "/" -> 47
      [] c = "1" -> 49
      [] c = "2" -> 50
      [] c = "a" -> 97
      [] c = "b" -> 98
      [] c = "c" -> 99
      [] c = "d" -> 100
      [] c = "e" -> 101
      [] c = "f" -> 102
      [] c = "g" -> 103
      [] c = "h" -> 104
      [] c = "i" -> 105
      [] c = "l" -> 108
      [] c = "p" -> 112
      [] c = "r" -> 114
      [] c = "s" -> 115
      [] c = "t" -> 116
      [] c = "x" -> 120
      [] OTHER -> 127

\* s < t for Python str
RECURSIVE StrLess(_, _)
StrLess(s, t) ==
    IF t = <<>> THEN FALSE
    ELSE IF s = <<>> THEN TRUE
    ELSE IF Head(s) = Head(t) THEN StrLess(Tail(s), Tail(t))
    ELSE Ord(Head(s)) < Ord(Head(t))

\* s.startswith(p)
StartsWith(s, p) ==
    /\ Len(p) <= Len(s)
    /\ SubSeq(s, 1, Len(p)) = p

\* s.endswith(p)
EndsWith(s, p) ==
    /\ Len(p) <= Len(s)
    /\ SubSeq(s, Len(s) - Len(p) + 1, Len(s)) = p

\* s[n:]
Drop(s, n) == SubSeq(s, n + 1, Len(s))

\* s.lstrip(c) for a set of characters cs
RECURSIVE LStrip(_, _)
LStrip(s, cs) ==
    IF s # <<>> /\ Head(s) \in cs THEN LStrip(Tail(s), cs) ELSE s

\* s.rstrip(c) for a set of characters cs
RECURSIVE RStrip(_, _)
RStrip(s, cs) ==
    IF s # <<>> /\ s[Len(s)] \in cs THEN RStrip(SubSeq(s, 1, Len(s) - 1), cs) ELSE s

\* s.strip(c)
Strip(s, cs) == LStrip(RStrip(s, cs), cs)

\* the characters str.strip(), str.rstrip() and str.split() treat as blank
Whitespace == {" ", "\n"}

\* c in s
Contains(s, c) == \E i \in 1..Len(s) : s[i] = c

\* s.find(c) as a 1-based position, 0 when absent
RECURSIVE Find(_, _, _)
Find(s, c, i) ==
    IF i > Len(s) THEN 0
    ELSE IF s[i] = c THEN i
    ELSE Find(s, c, i + 1)

\* s.rfind(c) as a 1-based position, 0 when absent
RECURSIVE RFind(_, _, _)
RFind(s, c, i) ==
    IF i < 1 THEN 0
    ELSE IF s[i] = c THEN i
    ELSE RFind(s, c, i - 1)

\* s.split(c): every piece between separators, empty pieces kept
RECURSIVE Split(_, _)
Split(s, c) ==
    LET i == Find(s, c, 1)
    IN  IF i = 0 THEN <<s>>
        ELSE <<SubSeq(s, 1, i - 1)>> \o Split(Drop(s, i), c)

\* s.split(): pieces between runs of blanks, no empty piece
RECURSIVE SplitWs(_)
SplitWs(s) ==
    LET t == LStrip(s, Whitespace)
        RECURSIVE WordEnd(_)
        WordEnd(i) == IF i > Len(t) \/ t[i] \in Whitespace THEN i - 1 ELSE WordEnd(i + 1)
    IN  IF t = <<>> THEN <<>>
        ELSE <<SubSeq(t, 1, WordEnd(1))>> \o SplitWs(Drop(t, WordEnd(1)))

\* c.join(parts)
RECURSIVE Join(_, _)
Join(parts, c) ==
    IF parts = <<>> THEN <<>>
    ELSE IF Len(parts) = 1 THEN parts[1]
    ELSE parts[1] \o <<c>> \o Join(Tail(parts), c)

\* s.splitlines() of a text whose only line break is "\n"
SplitLines(s) ==
    IF s = <<>> THEN <<>>
    ELSE IF s[Len(s)] = Newline THEN Split(SubSeq(s, 1, Len(s) - 1), Newline)
    ELSE Split(s, Newline)

\* sorted(set_of_str)
RECURSIVE Sorted(_)
Sorted(S) ==
    IF S = {} THEN <<>>
    ELSE LET m == CHOOSE x \in S : \A y \in S \ {x} : StrLess(x, y)
         IN  <<m>> \o Sorted(S \ {m})

\* ------------------------------------------------------------- os.path
\* posixpath.join(a, b)
PathJoin(a, b) ==
    IF StartsWith(b, <<Slash>>) THEN b
    ELSE IF a = <<>> \/ EndsWith(a, <<Slash>>) THEN a \o b
    ELSE a \o <<Slash>> \o b

\* the component stack of posixpath.normpath
RECURSIVE NormComps(_, _, _)
NormComps(comps, acc, initial) ==
    IF comps = <<>> THEN acc
    ELSE LET comp == Head(comps)
             rest == Tail(comps)
         IN  IF comp = <<>> \/ comp = <<Dot>> THEN NormComps(rest, acc, initial)
             ELSE IF \/ comp # <<Dot, Dot>>
                     \/ (initial = 0 /\ acc = <<>>)
                     \/ (acc # <<>> /\ acc[Len(acc)] = <<Dot, Dot>>)
                  THEN NormComps(rest, Append(acc, comp), initial)
             ELSE IF acc # <<>> THEN NormComps(rest, SubSeq(acc, 1, Len(acc) - 1), initial)
             ELSE NormComps(rest, acc, initial)

\* posixpath.normpath(path)
NormPath(path) ==
    LET initial == IF ~StartsWith(path, <<Slash>>) THEN 0
                   ELSE IF StartsWith(path, <<Slash, Slash>>)
                           /\ ~StartsWith(path, <<Slash, Slash, Slash>>) THEN 2
                   ELSE 1
        body == Join(NormComps(Split(path, Slash), <<>>, initial), Slash)
        res == (IF initial = 2 THEN <<Slash, Slash>>
                ELSE IF initial = 1 THEN <<Slash>> ELSE <<>>) \o body
    IN  IF path = <<>> \/ res = <<>> THEN <<Dot>> ELSE res

\* posixpath.dirname(p)
DirName(p) ==
    LET i == RFind(p, Slash, Len(p))
        head == SubSeq(p, 1, i)
    IN  IF head # <<>> /\ LStrip(head, {Slash}) # <<>> THEN RStrip(head, {Slash}) ELSE head

\* ------------------------------------------------ host file system and zip
\* A directory tree is a function from paths (sequences of names, the root
\* being <<>>) to nodes; a tree that was removed has no root.
DirNode == [kind |-> "dir", data |-> <<>>]
FileNode(data) == [kind |-> "file", data |-> data]
NoTree == [p \in {} |-> DirNode]
EmptyTree == [p \in {<<>>} |-> DirNode]

\* tempfile.mkdtemp(): the host path of the working area
TempDir == <<"/", "t">>

\* the kernel's reading of a host path: its components, "" and "." skipped
\* and ".." going one level up
RECURSIVE Walk(_, _)
Walk(comps, acc) ==
    IF comps = <<>> THEN acc
    ELSE IF Head(comps) = <<>> \/ Head(comps) = <<Dot>> THEN Walk(Tail(comps), acc)
    ELSE IF Head(comps) = <<Dot, Dot>>
         THEN Walk(Tail(comps), IF acc = <<>> THEN acc ELSE SubSeq(acc, 1, Len(acc) - 1))
    ELSE Walk(Tail(comps), Append(acc, Head(comps)))

HostComps(host) == Walk(Split(host, Slash), <<>>)

\* whether a host path lies in the working area, and where
InTemp(host) == LET c == HostComps(host) IN c # <<>> /\ <<c[1]>> = HostComps(TempDir)
Rel(host) == IF HostComps(host) = <<>> THEN <<>> ELSE Tail(HostComps(host))

\* os.path.exists, os.path.isdir, os.path.isfile on a host path
OsExists(tree, host) ==
    IF InTemp(host) THEN Rel(host) \in DOMAIN tree
    ELSE HostComps(host) = <<>>   \* outside the working area only "/" is known
OsIsDir(tree, host) ==
    IF InTemp(host) THEN OsExists(tree, host) /\ tree[Rel(host)].kind = "dir"
    ELSE OsExists(tree, host)
OsIsFile(tree, host) ==
    InTemp(host) /\ OsExists(tree, host) /\ tree[Rel(host)].kind = "file"

\* the tree with one more node
Put(tree, p, node) == [q \in DOMAIN tree \cup {p} |-> IF q = p THEN node ELSE tree[q]]

\* os.mkdir(host) after the parents were made, an existing directory accepted
MakeLast(up, p) ==
    IF up.err # "none" THEN up
    ELSE IF p \in DOMAIN up.tree
         THEN [tree |-> up.tree,
               err |-> IF up.tree[p].kind = "dir" THEN "none" ELSE "FileExistsError"]
    ELSE IF p = <<>> \/ SubSeq(p, 1, Len(p) - 1) \notin DOMAIN up.tree
         THEN [tree |-> up.tree, err |-> "FileNotFoundError"]
    ELSE IF up.tree[SubSeq(p, 1, Len(p) - 1)].kind # "dir"
         THEN [tree |-> up.tree, err |-> "NotADirectoryError"]
    ELSE [tree |-> Put(up.tree, p, DirNode), err |-> "none"]

\* os.makedirs(host, exist_ok=True): the parents first, then the directory;
\* err names the OSError raised
RECURSIVE MakeDirs(_, _)
MakeDirs(tree, host) ==
    LET head == DirName(RStrip(host, {Slash}))
    IN  MakeLast(IF head # <<>> /\ head # host /\ ~OsExists(tree, head)
                 THEN MakeDirs(tree, head)
                 ELSE [tree |-> tree, err |-> "none"],
                 Rel(host))

\* shutil.copyfile(src, dst) for a source that is an existing file
CopyFile(tree, src, dst) ==
    LET s == Rel(src)
        d == Rel(dst)
    IN  IF s = d THEN [tree |-> tree, err |-> "SameFileError"]
        ELSE IF d \in DOMAIN tree /\ tree[d].kind = "dir"
             THEN [tree |-> tree, err |-> "IsADirectoryError"]
        ELSE IF d = <<>> \/ SubSeq(d, 1, Len(d) - 1) \notin DOMAIN tree
             THEN [tree |-> tree, err |-> "FileNotFoundError"]
        ELSE IF tree[SubSeq(d, 1, Len(d) - 1)].kind # "dir"
             THEN [tree |-> tree, err |-> "NotADirectoryError"]
        ELSE [tree |-> Put(tree, d, FileNode(tree[s].data)), err |-> "none"]

\* A zip archive is a function from member names ("a/" for a directory,
\* "a/f" for a file) to the members' bytes.
\* the names of a member's path, as ZipFile.extractall splits them
MemberPath(name) ==
    SelectSeq(Split(name, Slash), LAMBDA c : c \notin {<<>>, <<Dot>>, <<Dot, Dot>>})

\* the proper prefixes of a path, the root included
Ancestors(p) == {SubSeq(p, 1, n) : n \in 0..(Len(p) - 1)}

\* zipfile.ZipFile(...).extractall(temp_dir) into a fresh directory
ExtractAll(zip) ==
    LET members == DOMAIN zip
        dirMembers == {m \in members : EndsWith(m, <<Slash>>)}
        fileMembers == members \ dirMembers
        dirs == {<<>>} \cup {MemberPath(m) : m \in dirMembers}
                       \cup UNION {Ancestors(MemberPath(m)) : m \in members}
        files == {MemberPath(m) : m \in fileMembers}
        Member(p) == CHOOSE m \in fileMembers : MemberPath(m) = p
    IN  [p \in dirs \cup files |->
            IF p \in files THEN FileNode(zip[Member(p)]) ELSE DirNode]

\* make_archive that writes the files only, no member for a directory
MakeArchive_files(tree) ==
    LET paths == {p \in DOMAIN tree : tree[p].kind = "file"}
        Of(n) == CHOOSE p \in paths : Join(p, Slash) = n
    IN  [n \in {Join(p, Slash) : p \in paths} |-> tree[Of(n)].data]

\* shutil.make_archive(name, 'zip', root): a member for every directory
\* below the root and for every file
MakeArchive(tree) ==
    LET Name(p) == Join(p, Slash) \o (IF tree[p].kind = "dir" THEN <<Slash>> ELSE <<>>)
        paths == DOMAIN tree \ {<<>>}
        Of(n) == CHOOSE p \in paths : Name(p) = n
    IN  [n \in {Name(p) : p \in paths} |-> tree[Of(n)].data]

\* read_vfs that lists the files and leaves the directories out
read_vfs_files(tree) ==
    {<<Slash>> \o Join(p, Slash) : p \in {q \in DOMAIN tree : tree[q].kind = "file"}}

\* read_vfs: os.walk over the working area, "/rel/" per directory and
\* "/rel" per file (self.files; a list in the code, only ever used as a set)
read_vfs(tree) ==
    {<<Slash>> \o Join(p, Slash) \o (IF tree[p].kind = "dir" THEN <<Slash>> ELSE <<>>)
        : p \in DOMAIN tree \ {<<>>}}

\* ------------------------------------------------------ command handlers
\* a printed line: the text of the message and the value formatted into it
\* (a plain print has an empty text)
Printed(s) == [text |-> "", arg |-> s]
Message(text, s) == [text |-> text, arg |-> s]

\* normalize_path that joins the path onto the current directory and leaves
\* its "." and ".." segments in
normalize_path_joined(path, current) ==
    IF ~StartsWith(path, <<Slash>>) THEN PathJoin(current, path) ELSE path

\* normalize_path
normalize_path(path, current) ==
    NormPath(IF ~StartsWith(path, <<Slash>>) THEN PathJoin(current, path) ELSE path)

\* get_full_path: the host path of a virtual path
get_full_path(path, current) ==
    IF StartsWith(path, <<Slash>>)
    THEN PathJoin(TempDir, LStrip(path, {Slash}))
    ELSE PathJoin(PathJoin(TempDir, LStrip(current, {Slash})), path)

\* list_dir that prints what follows the prefix without cutting it at the
\* first "/"
list_dir_deep(args, current, index) ==
    LET path == IF args = <<>> THEN current ELSE args[1]
        n == normalize_path(path, current)
        normalized_path == IF ~EndsWith(n, <<Slash>>) THEN n \o <<Slash>> ELSE n
        Item(f) ==
            LET sub_path == Strip(Drop(f, Len(normalized_path)), {Slash})
            IN  IF sub_path # <<>>
                THEN IF EndsWith(f, <<Slash>>) THEN {sub_path \o <<Slash>>} ELSE {sub_path}
                ELSE {}
        contents == UNION {Item(f) : f \in {g \in index : StartsWith(g, normalized_path)}}
        sorted == Sorted(contents)
    IN  [i \in 1..Len(sorted) |-> Printed(sorted[i])]

\* list_dir: what ls prints
list_dir(args, current, index) ==
    LET path == IF args = <<>> THEN current ELSE args[1]
        n == normalize_path(path, current)
        normalized_path == IF ~EndsWith(n, <<Slash>>) THEN n \o <<Slash>> ELSE n
        Item(f) ==
            LET sub_path == Strip(Drop(f, Len(normalized_path)), {Slash})
            IN  IF Contains(sub_path, Slash) THEN {Split(sub_path, Slash)[1] \o <<Slash>>}
                ELSE IF sub_path # <<>>
                     THEN IF EndsWith(f, <<Slash>>) THEN {sub_path \o <<Slash>>} ELSE {sub_path}
                ELSE {}
        contents == UNION {Item(f) : f \in {g \in index : StartsWith(g, normalized_path)}}
        sorted == Sorted(contents)
    IN  [i \in 1..Len(sorted) |-> Printed(sorted[i])]

\* change_dir that looks the directory up without its trailing "/"
change_dir_prefix(args, current, index) ==
    IF args = <<>> THEN [current_path |-> current, out |-> <<>>]
    ELSE LET new_path == args[1]
             n == normalize_path(new_path, current)
             stripped == RStrip(n, {Slash})
         IN  IF new_path = <<Dot, Dot>>
             THEN [current_path |->
                      IF current # <<Slash>>
                      THEN LET d == DirName(RStrip(current, {Slash}))
                           IN  IF d = <<>> THEN <<Slash>> ELSE d
                      ELSE current,
                   out |-> <<>>]
             ELSE IF \E f \in index : f = n \/ StartsWith(f, n)
                  THEN [current_path |-> IF stripped = <<>> THEN <<Slash>> ELSE stripped,
                        out |-> <<>>]
             ELSE [current_path |-> current,
                   out |-> <<Message("cd: no such file or directory: ", new_path)>>]

\* change_dir whose "cd .." drops the last name by hand and forgets the root
change_dir_parent(args, current, index) ==
    IF args = <<>> THEN [current_path |-> current, out |-> <<>>]
    ELSE LET new_path == args[1]
             n == normalize_path(new_path, current)
             potential_path == IF ~EndsWith(n, <<Slash>>) THEN n \o <<Slash>> ELSE n
             stripped == RStrip(potential_path, {Slash})
         IN  IF new_path = <<Dot, Dot>>
             THEN [current_path |->
                      IF current # <<Slash>>
                      THEN SubSeq(current, 1, RFind(current, Slash, Len(current)) - 1)
                      ELSE current,
                   out |-> <<>>]
             ELSE IF \E f \in index : f = potential_path \/ StartsWith(f, potential_path)
                  THEN [current_path |-> IF stripped = <<>> THEN <<Slash>> ELSE stripped,
                        out |-> <<>>]
             ELSE [current_path |-> current,
                   out |-> <<Message("cd: no such file or directory: ", new_path)>>]

\* change_dir that keeps the path as it was joined, "." and ".." included
change_dir_raw(args, current, index) ==
    IF args = <<>> THEN [current_path |-> current, out |-> <<>>]
    ELSE LET new_path == args[1]
             n == normalize_path(new_path, current)
             potential_path == IF ~EndsWith(n, <<Slash>>) THEN n \o <<Slash>> ELSE n
         IN  IF new_path = <<Dot, Dot>>
             THEN [current_path |->
                      IF current # <<Slash>>
                      THEN LET d == DirName(RStrip(current, {Slash}))
                           IN  IF d = <<>> THEN <<Slash>> ELSE d
                      ELSE current,
                   out |-> <<>>]
             ELSE IF \E f \in index : f = potential_path \/ StartsWith(f, potential_path)
                  THEN [current_path |-> normalize_path_joined(new_path, current),
                        out |-> <<>>]
             ELSE [current_path |-> current,
                   out |-> <<Message("cd: no such file or directory: ", new_path)>>]

\* change_dir: the new current_path and what cd prints
change_dir(args, current, index) ==
    IF args = <<>> THEN [current_path |-> current, out |-> <<>>]
    ELSE LET new_path == args[1]
             n == normalize_path(new_path, current)
             potential_path == IF ~EndsWith(n, <<Slash>>) THEN n \o <<Slash>> ELSE n
             stripped == RStrip(potential_path, {Slash})
         IN  IF new_path = <<Dot, Dot>>
             THEN [current_path |->
                      IF current # <<Slash>>
                      THEN LET d == DirName(RStrip(current, {Slash}))
                           IN  IF d = <<>> THEN <<Slash>> ELSE d
                      ELSE current,
                   out |-> <<>>]
             ELSE IF \E f \in index : f = potential_path \/ StartsWith(f, potential_path)
                  THEN [current_path |-> IF stripped = <<>> THEN <<Slash>> ELSE stripped,
                        out |-> <<>>]
             ELSE [current_path |-> current,
                   out |-> <<Message("cd: no such file or directory: ", new_path)>>]

\* copy_file that leaves the index as it was after the copy
copy_copied_stale(copied, index) ==
    [tree |-> copied.tree, files |-> index, err |-> copied.err, out |-> <<>>]

\* copy_file from shutil.copyfile on: the index is read again after the copy
copy_copied(copied, index) ==
    IF copied.err # "none"
    THEN [tree |-> copied.tree, files |-> index, err |-> copied.err, out |-> <<>>]
    ELSE [tree |-> copied.tree, files |-> read_vfs(copied.tree), err |-> "none", out |-> <<>>]

\* copy_file from os.makedirs on
copy_made(made, full_src_path, full_dest_path, index) ==
    IF made.err # "none"
    THEN [tree |-> made.tree, files |-> index, err |-> made.err, out |-> <<>>]
    ELSE copy_copied(CopyFile(made.tree, full_src_path, full_dest_path), index)

\* copy_file that makes the directories of the destination before it looks
\* at the source
copy_paths_eager(src, full_src_path, full_dest_path, tree, index) ==
    IF ~OsExists(tree, full_src_path)
    THEN [tree |-> MakeDirs(tree, DirName(full_dest_path)).tree, files |-> index,
          err |-> "none",
          out |-> <<Message("cp: cannot stat: No such file or directory", src)>>]
    ELSE IF OsIsDir(tree, full_src_path)
    THEN [tree |-> MakeDirs(tree, DirName(full_dest_path)).tree, files |-> index,
          err |-> "none",
          out |-> <<Message("cp: omitting directory", src)>>]
    ELSE copy_made(MakeDirs(tree, DirName(full_dest_path)), full_src_path, full_dest_path,
                   index)

\* copy_file once the two host paths are known
copy_paths(src, full_src_path, full_dest_path, tree, index) ==
    IF ~OsExists(tree, full_src_path)
    THEN [tree |-> tree, files |-> index, err |-> "none",
          out |-> <<Message("cp: cannot stat: No such file or directory", src)>>]
    ELSE IF OsIsDir(tree, full_src_path)
    THEN [tree |-> tree, files |-> index, err |-> "none",
          out |-> <<Message("cp: omitting directory", src)>>]
    ELSE copy_made(MakeDirs(tree, DirName(full_dest_path)), full_src_path, full_dest_path,
                   index)

\* copy_file once the two paths are normalized
copy_normalized(src, dest, current, tree, index) ==
    copy_paths(src, get_full_path(src, current), get_full_path(dest, current), tree, index)

\* copy_file: the working area and the index after cp, what it prints and
\* the exception that escapes it
copy_file(args, current, tree, index) ==
    IF Len(args) # 2
    THEN [tree |-> tree, files |-> index, err |-> "none",
          out |-> <<Message("cp: requires source and destination.", <<>>)>>]
    ELSE copy_normalized(normalize_path(args[1], current), normalize_path(args[2], current),
                         current, tree, index)

\* f.readline(): the next line with its line break, and the rest
ReadLine(data) ==
    LET i == Find(data, Newline, 1)
    IN  IF i = 0 THEN [line |-> data, rest |-> <<>>]
        ELSE [line |-> SubSeq(data, 1, i), rest |-> Drop(data, i)]

\* the loop of head_file: at most `left` more lines
RECURSIVE HeadLoop(_, _)
HeadLoop(data, left) ==
    LET r == ReadLine(data)
    IN  IF left = 0 \/ r.line = <<>> THEN <<>>
        ELSE <<Printed(RStrip(r.line, Whitespace))>> \o HeadLoop(r.rest, left - 1)

\* head_file whose loop runs once more
head_file_eleven(args, current, tree) ==
    IF args = <<>> THEN <<Message("head: missing file operand.", <<>>)>>
    ELSE LET file == normalize_path(args[1], current)
             full_file_path == get_full_path(file, current)
         IN  IF ~OsExists(tree, full_file_path)
             THEN <<Message("head: cannot open: No such file or directory", args[1])>>
             ELSE IF OsIsDir(tree, full_file_path)
             THEN <<Message("head: error reading: IsADirectoryError", args[1])>>
             ELSE HeadLoop(tree[Rel(full_file_path)].data, HeadLimit + 1)

\* head_file: what head prints
head_file(args, current, tree) ==
    IF args = <<>> THEN <<Message("head: missing file operand.", <<>>)>>
    ELSE LET file == normalize_path(args[1], current)
             full_file_path == get_full_path(file, current)
         IN  IF ~OsExists(tree, full_file_path)
             THEN <<Message("head: cannot open: No such file or directory", args[1])>>
             ELSE IF OsIsDir(tree, full_file_path)
             THEN <<Message("head: error reading: IsADirectoryError", args[1])>>
             ELSE HeadLoop(tree[Rel(full_file_path)].data, HeadLimit)

\* ------------------------------------------------------------ the inputs
\* config: username, startup_script
Username == "user"
StartupScript == <<"s">>

\* the archives a session is started on: the one of the tests (start-up
\* script, a file of eleven lines, an empty directory without a member for
\* its parent), one without a script, one whose script exits, one whose
\* script copies a file onto a directory
ZipTest ==
    [n \in {<<"f">>,
         <<"a","/","b","/">>,
         <<"a","b">>,
         <<"s">>} |->
        CASE n = <<"f">> -> <<"a","\n","b","\n","c","\n","d","\n","e","\n","f","\n","g","\n","h","\n","i","\n","l","\n","p","\n">>
          [] n = <<"a","/","b","/">> -> <<>>
          [] n = <<"a","b">> -> <<"x","\n">>
          [] n = <<"s">> -> <<"l","s","\n","c","d"," ","a","/","b","\n","c","p"," ","/","f"," ","/","a","/","b","/","d","/","g","\n","h","e","a","d"," ","/","a","/","b","/","d","/","g","\n">>]

ZipPlain ==
    [n \in {<<"a","/","g">>,
         <<"e","/">>,
         <<"f">>} |->
        CASE n = <<"a","/","g">> -> <<"1","\n","2","\n","3","\n","4","\n","5","\n","6","\n","7","\n","8","\n","9","\n","0","\n">>
          [] n = <<"e","/">> -> <<>>
          [] n = <<"f">> -> <<"a"," ","\n","\n","b">>]

ZipExit ==
    [n \in {<<"a","/">>,
         <<"a","/","f">>,
         <<"s">>} |->
        CASE n = <<"a","/">> -> <<>>
          [] n = <<"a","/","f">> -> <<"x"," ","y","\n">>
          [] n = <<"s">> -> <<"\n","c","d"," ","a","\n","e","x","i","t"," ","1","\n","l","s","\n">>]

ZipCrash ==
    [n \in {<<"a","/">>,
         <<"f">>,
         <<"s">>} |->
        CASE n = <<"a","/">> -> <<>>
          [] n = <<"f">> -> <<"x","\n">>
          [] n = <<"s">> -> <<"c","p"," ","f"," ","a","\n","l","s","\n">>]

Archives == {ZipTest, ZipPlain, ZipExit, ZipCrash}

\* the command lines typed at the prompt
Lines ==
    {<<"l","s">>,
     <<"l","s"," ","a">>,
     <<" ","l","s"," "," ","/">>,
     <<"l","s"," ","f">>,
     <<"c","d"," ","a">>,
     <<"c","d"," ",".",".">>,
     <<"c","d">>,
     <<"c","d"," ","/">>,
     <<"c","d"," ","f">>,
     <<"c","d"," ","/","/","a">>,
     <<"c","d"," ",".",".","/","a","/",".","/","b","/">>,
     <<"c","p"," ","/","f"," ","/","a","/","x","/","g">>,
     <<"c","p"," ","f"," ","a">>,
     <<"c","p"," ","x"," ","n","/","g">>,
     <<"c","p"," ","a"," ","g">>,
     <<"c","p"," ","/","f"," ","/","f","/","x">>,
     <<"c","p"," ","f"," ","f">>,
     <<"c","p"," ","/","f"," ","/","/","e","/","g">>,
     <<"c","p"," ","a","/","g"," ","f">>,
     <<"h","e","a","d"," ","f">>,
     <<"h","e","a","d"," ","x">>,
     <<"h","e","a","d"," ","a","/","g">>,
     <<"h","e","a","d"," ","a">>,
     <<"c","l","e","a","r">>,
     <<"e","x","i","t">>,
     <<"x","x"," ","1">>,
     <<" "," ">>}

\* the names of the commands
Cmd_ls == <<"l","s">>
Cmd_cd == <<"c","d">>
Cmd_exit == <<"e","x","i","t">>
Cmd_cp == <<"c","p">>
Cmd_head == <<"h","e","a","d">>
Cmd_clear == <<"c","l","e","a","r">>

\* ------------------------------------------------------------ the session
VARIABLES
    archive,             \* the zip file at vfs_path
    tree,                \* the working area (temp_dir), NoTree once removed
    vfs_path_extracted,  \* <<TempDir>>, or <<>> for None
    files,               \* the index
    current_path,
    log,                 \* self.log
    logfile,             \* the JSON array in the file at log_path
    out,                 \* what the last operation printed
    raised,              \* the exception that left the last operation
    phase,               \* "startup" (__init__ runs the script), "prompt"
                         \* (run() waits for input), "exited" (sys.exit(0)),
                         \* "aborted" (an exception ended the process),
                         \* "closed" (cleanup() was called on the object)
    script,              \* the lines of the start-up script still to run
    last,                \* the last operation and its command line
    prev,                \* the state before the last operation
    opened,              \* per session: the working area and the index after
                         \* load_vfs, whether a cp was dispatched, whether
                         \* cleanup packed the working area
    ninputs,             \* command lines typed and relaunches so far
    pc,                  \* the statement an operation has come to: "idle"
                         \* between operations, or a statement inside
                         \* execute_command, run or cleanup
    updated,             \* the file vfs_updated.zip: <<zip>>, or <<>> when
                         \* there is none
    whole                \* whether the file at vfs_path is a complete file

vars == <<archive, tree, vfs_path_extracted, files, current_path, log, logfile,
          out, raised, phase, script, last, prev, opened, ninputs, pc, updated, whole>>

\* the variables that change only inside an operation taken statement by
\* statement
inside == <<pc, updated, whole>>

\* the object and the host files, as the operations read and write them
State == [archive |-> archive, tree |-> tree, vfs_path_extracted |-> vfs_path_extracted,
          files |-> files, current_path |-> current_path, log |-> log,
          logfile |-> logfile]

\* log_action that writes only the new entry to the file
log_action_last(st, action) ==
    [st EXCEPT !.log = Append(st.log, [user |-> Username, action |-> action]),
               !.logfile = <<[user |-> Username, action |-> action]>>]

\* log_action: an entry is appended and the whole log is written to the file
\* (the timestamp of an entry is left out)
log_action(st, action) ==
    LET entries == Append(st.log, [user |-> Username, action |-> action])
    IN  [st EXCEPT !.log = entries, !.logfile = entries]

\* cleanup: the result has the state and the exception raised
cleanup(st) ==
    IF st.vfs_path_extracted = <<>>
    THEN [st |-> st, raised |-> "TypeError"]   \* os.path.exists(None)
    ELSE IF OsExists(st.tree, st.vfs_path_extracted[1])
    THEN [st |-> [st EXCEPT !.archive = MakeArchive(st.tree),
                            !.tree = NoTree,
                            !.vfs_path_extracted = <<>>],
          raised |-> "none"]
    ELSE [st |-> st, raised |-> "none"]

\* the last line of execute_command: the command line is logged
Logged(st, command_line, printed) ==
    [st |-> log_action(st, command_line), out |-> printed, raised |-> "none"]

\* execute_command after change_dir
Changed(st, command_line, cd) ==
    Logged([st EXCEPT !.current_path = cd.current_path], command_line, cd.out)

\* execute_command after copy_file: an exception leaves before the line is logged
Copied(st, command_line, cp) ==
    IF cp.err # "none"
    THEN [st |-> [st EXCEPT !.tree = cp.tree, !.files = cp.files],
          out |-> cp.out, raised |-> cp.err]
    ELSE Logged([st EXCEPT !.tree = cp.tree, !.files = cp.files], command_line, cp.out)

\* sys.exit(0) after cleanup, unless cleanup raised
Exited(closed, printed) ==
    [st |-> closed.st, out |-> printed,
     raised |-> IF closed.raised = "none" THEN "SystemExit" ELSE closed.raised]

\* the if-chain of execute_command on the command and its arguments
Dispatch(st, command_line, cmd, args) ==
    IF cmd = Cmd_ls
    THEN Logged(st, command_line, list_dir(args, st.current_path, st.files))
    ELSE IF cmd = Cmd_cd
    THEN Changed(st, command_line, change_dir(args, st.current_path, st.files))
    ELSE IF cmd = Cmd_exit
    THEN Exited(cleanup(log_action(st, Cmd_exit)), <<>>)
    ELSE IF cmd = Cmd_cp
    THEN Copied(st, command_line, copy_file(args, st.current_path, st.tree, st.files))
    ELSE IF cmd = Cmd_head
    THEN Logged(st, command_line, head_file(args, st.current_path, st.tree))
    ELSE IF cmd = Cmd_clear
    THEN Logged(st, command_line, <<>>)
    ELSE Logged(st, command_line, <<Message("command not found", cmd)>>)

\* command_line.strip().split(), then the command and its arguments
Parsed(st, command_line, parts) ==
    IF parts = <<>>
    THEN [st |-> st, out |-> <<>>, raised |-> "none"]
    ELSE Dispatch(st, command_line, parts[1], Tail(parts))

\* execute_command: the state after the command line, what was printed and
\* the exception that left the dispatcher
execute_command(st, command_line) ==
    Parsed(st, command_line, SplitWs(Strip(command_line, Whitespace)))

\* load_vfs and the two assignments of __init__, on the archive of st
load_vfs(st) ==
    LET t == ExtractAll(st.archive)
    IN  [st EXCEPT !.tree = t, !.vfs_path_extracted = <<TempDir>>,
                   !.files = read_vfs(t), !.current_path = <<Slash>>, !.log = <<>>]

\* run_startup_script: the lines of the script, none when it is not a file
run_startup_script(t) ==
    LET script_full_path == PathJoin(TempDir, StartupScript)
    IN  IF OsIsFile(t, script_full_path)
        THEN SplitLines(t[Rel(script_full_path)].data)
        ELSE <<>>

\* the except clause of run: log the exit, clean up, sys.exit(0)
Shutdown(st) ==
    Exited(cleanup(log_action(st, Cmd_exit)), <<Message("Exiting shell.", <<>>)>>)

\* whether the line is dispatched to cp
IsCp(line) ==
    LET parts == SplitWs(Strip(line, Whitespace))
    IN  parts # <<>> /\ parts[1] = Cmd_cp

\* the variables of the object and of the host after an operation with result r
Apply(r) ==
    /\ archive' = r.st.archive
    /\ tree' = r.st.tree
    /\ vfs_path_extracted' = r.st.vfs_path_extracted
    /\ files' = r.st.files
    /\ current_path' = r.st.current_path
    /\ log' = r.st.log
    /\ logfile' = r.st.logfile
    /\ out' = r.out
    /\ raised' = r.raised
    /\ prev' = State
    /\ UNCHANGED inside

\* an operation with result r in the current session: `then` is the phase when
\* nothing was raised, cp whether it was a cp
Step(r, then, cp) ==
    /\ Apply(r)
    /\ phase' = (IF r.raised = "none" THEN then
                 ELSE IF r.raised = "SystemExit" THEN "exited"
                 ELSE "aborted")
    /\ opened' = [opened EXCEPT ![Len(opened)].cp = @ \/ cp,
                                ![Len(opened)].closed = @ \/ (r.st.vfs_path_extracted = <<>>)]

\* the object after load_vfs and the two assignments of __init__: the script
\* is about to run
Started(st, sessions) ==
    /\ Apply([st |-> st, out |-> <<>>, raised |-> "none"])
    /\ script' = run_startup_script(st.tree)
    /\ opened' = Append(sessions, [tree |-> st.tree, files |-> st.files, cp |-> FALSE,
                                   closed |-> FALSE])
    /\ phase' = "startup"
    /\ last' = [op |-> "open", line |-> <<>>]

\* the state in which __init__ has loaded the archive a
Loaded(a, st) ==
    /\ archive = a
    /\ tree = st.tree
    /\ vfs_path_extracted = st.vfs_path_extracted
    /\ files = st.files
    /\ current_path = st.current_path
    /\ log = st.log
    /\ logfile = st.logfile
    /\ script = run_startup_script(st.tree)
    /\ opened = <<[tree |-> st.tree, files |-> st.files, cp |-> FALSE, closed |-> FALSE]>>
    /\ prev = st
    /\ out = <<>>
    /\ raised = "none"
    /\ phase = "startup"
    /\ last = [op |-> "open", line |-> <<>>]
    /\ ninputs = 0
    /\ pc = "idle"
    /\ updated = <<>>
    /\ whole = TRUE

Init ==
    \E a \in Archives :
        Loaded(a, load_vfs([archive |-> a, tree |-> NoTree, vfs_path_extracted |-> <<>>,
                            files |-> {}, current_path |-> <<Slash>>, log |-> <<>>,
                            logfile |-> <<>>]))

\* run_startup_script: the next line of the script is executed
StartupStep ==
    /\ phase = "startup"
    /\ script # <<>>
    /\ Step(execute_command(State, Head(script)), "startup", IsCp(Head(script)))
    /\ script' = Tail(script)
    /\ last' = [op |-> "script", line |-> Head(script)]
    /\ UNCHANGED ninputs

\* __init__ returns and run() shows its first prompt
StartupDone ==
    /\ phase = "startup"
    /\ pc = "idle"
    /\ script = <<>>
    /\ phase' = "prompt"
    /\ last' = [op |-> "started", line |-> <<>>]
    /\ prev' = State
    /\ out' = <<>>
    /\ UNCHANGED <<archive, tree, vfs_path_extracted, files, current_path, log, logfile,
                   raised, script, opened, ninputs>>
    /\ UNCHANGED inside

\* a keyboard interrupt while __init__ runs: nothing catches it
StartupInterrupt ==
    /\ phase = "startup"
    /\ pc = "idle"
    /\ phase' = "aborted"
    /\ raised' = "KeyboardInterrupt"
    /\ last' = [op |-> "interrupt", line |-> <<>>]
    /\ prev' = State
    /\ out' = <<>>
    /\ UNCHANGED <<archive, tree, vfs_path_extracted, files, current_path, log, logfile,
                   script, opened, ninputs>>
    /\ UNCHANGED inside

\* run: a line is read and executed
Command(line) ==
    /\ phase = "prompt"
    /\ ninputs < MaxInputs
    /\ Step(execute_command(State, line), "prompt", IsCp(line))
    /\ last' = [op |-> "command", line |-> line]
    /\ ninputs' = ninputs + 1
    /\ UNCHANGED script

\* run: input() raises EOFError or KeyboardInterrupt
EndOfInput ==
    /\ phase = "prompt"
    /\ Step(Shutdown(State), "prompt", FALSE)
    /\ last' = [op |-> "eof", line |-> <<>>]
    /\ UNCHANGED <<script, ninputs>>

\* the result of a call of cleanup() from outside: nothing printed
Called(closed) == [st |-> closed.st, out |-> <<>>, raised |-> closed.raised]

\* cleanup() called on the object by its owner (as the tests do)
CleanupCall ==
    /\ phase \in {"prompt", "exited", "closed"}
    /\ raised # "TypeError"
    /\ Step(Called(cleanup(State)), IF phase = "prompt" THEN "closed" ELSE phase, FALSE)
    /\ last' = [op |-> "cleanup", line |-> <<>>]
    /\ UNCHANGED <<script, ninputs>>

\* a new ShellEmulator on the same configuration
Reopen ==
    /\ phase \in {"exited", "aborted", "closed"}
    /\ ninputs < MaxInputs
    /\ Started(load_vfs(State), opened)
    /\ ninputs' = ninputs + 1

Next ==
    \/ StartupStep
    \/ StartupDone
    \/ StartupInterrupt
    \/ \E line \in Lines : Command(line)
    \/ EndOfInput
    \/ CleanupCall
    \/ Reopen

Spec == Init /\ [][Next]_vars

\* --------------------------------------------- list_dir on any index
\* list_dir reads only the index and the current directory: here the index
\* is any set of entries, also one in which a directory has no entry of its
\* own, and the only commands are ls.
IndexPool ==
    {<<"/","a","/">>,
     <<"/","a","/","b","/","c">>,
     <<"/","a","/","d","/">>,
     <<"/","a","b">>,
     <<"/","f">>,
     <<"/","e","/">>,
     <<"/","a","/","b","/","g","/">>}

LsPaths ==
    {<<"/">>, <<"/","a">>, <<"/","a","/","b">>}

LsLines ==
    {<<"l","s">>,
     <<"l","s"," ","a">>,
     <<"l","s"," ","/","a","/","b">>,
     <<" ","l","s"," "," ","/">>,
     <<"l","s"," ","f">>,
     <<"l","s"," ",".",".">>}

\* a session at its prompt whose index is the given one
AtPrompt(index, current) ==
    /\ archive = [n \in {} |-> <<>>]
    /\ tree = EmptyTree
    /\ vfs_path_extracted = <<TempDir>>
    /\ files = index
    /\ current_path = current
    /\ log = <<>>
    /\ logfile = <<>>
    /\ script = <<>>
    /\ opened = <<[tree |-> EmptyTree, files |-> index, cp |-> FALSE, closed |-> FALSE]>>
    /\ prev = State
    /\ out = <<>>
    /\ raised = "none"
    /\ phase = "prompt"
    /\ last = [op |-> "started", line |-> <<>>]
    /\ ninputs = 0
    /\ pc = "idle"
    /\ updated = <<>>
    /\ whole = TRUE

InitListDir == \E index \in SUBSET IndexPool, current \in LsPaths : AtPrompt(index, current)

NextListDir == \E line \in LsLines : Command(line)

SpecListDir == InitListDir /\ [][NextListDir]_vars

\* ------------------------------------- head and cp on any path argument
\* The arguments of head and cp are built from at most MaxSegs segments, each
\* "..", ".", empty (a repeated "/") or a name, relative and absolute, and
\* given to one command at the prompt of a session on the archive without a
\* start-up script, from each of its directories.
ResolveSegs == {<<Dot, Dot>>, <<Dot>>, <<>>, <<"a">>, <<"f">>}

ResolveRelative ==
    {Join(s, Slash) : s \in UNION {[1..n -> ResolveSegs] : n \in 1..MaxSegs}}

ResolvePaths == ResolveRelative \cup {<<Slash>> \o p : p \in ResolveRelative}

ResolveLines ==
    {Cmd_head \o <<Space>> \o p : p \in ResolvePaths}
        \cup {Cmd_cp \o <<Space>> \o p \o <<Space, "g">> : p \in ResolvePaths}
        \cup {Cmd_cp \o <<Space, Slash, "f", Space>> \o p : p \in ResolvePaths}

\* the cd that led to the directory, as the log has it
ResolveLog(current) ==
    IF current = <<Slash>> THEN <<>>
    ELSE <<[user |-> Username, action |-> Cmd_cd \o <<Space>> \o current]>>

\* a session on the archive a at its prompt, in the directory current
Resolving(a, t, current) ==
    /\ archive = a
    /\ tree = t
    /\ vfs_path_extracted = <<TempDir>>
    /\ files = read_vfs(t)
    /\ current_path = current
    /\ log = ResolveLog(current)
    /\ logfile = ResolveLog(current)
    /\ script = <<>>
    /\ opened = <<[tree |-> t, files |-> read_vfs(t), cp |-> FALSE, closed |-> FALSE]>>
    /\ prev = State
    /\ out = <<>>
    /\ raised = "none"
    /\ phase = "prompt"
    /\ last = [op |-> "started", line |-> <<>>]
    /\ ninputs = Len(ResolveLog(current))
    /\ pc = "idle"
    /\ updated = <<>>
    /\ whole = TRUE

InitResolve ==
    \E current \in {<<Slash>>, <<Slash, "a">>, <<Slash, "e">>} :
        Resolving(ZipPlain, ExtractAll(ZipPlain), current)

NextResolve == \E line \in ResolveLines : last.op = "started" /\ Command(line)

SpecResolve == InitResolve /\ [][NextResolve]_vars

\* ------------------------------ the operations statement by statement
\* Here execute_command, the except clause of run and cleanup are taken one
\* statement at a time, and a statement of cleanup may fail. The session is
\* the first one; an interrupt comes where the program waits for input or
\* between two lines of the start-up script.
StepLines ==
    {<<"l","s">>,
     <<"c","d"," ","a">>,
     <<"c","p"," ","/","f"," ","/","a","/","x","/","g">>,
     <<"c","p"," ","f"," ","a">>,
     <<"h","e","a","d"," ","f">>,
     <<"e","x","i","t">>,
     <<"x","x"," ","1">>,
     <<" "," ">>}

\* whether the line is dispatched to exit, and whether it is blank
IsExit(line) ==
    LET parts == SplitWs(Strip(line, Whitespace))
    IN  parts # <<>> /\ parts[1] = Cmd_exit
IsBlank(line) == Strip(line, Whitespace) = <<>>

\* an operation begins
Begin(op, line) ==
    /\ last' = [op |-> op, line |-> line]
    /\ prev' = State

\* execute_command that has written the entry of the line by the time the
\* handler returns
Handled_logged(r, blank) ==
    /\ tree' = r.st.tree
    /\ files' = r.st.files
    /\ current_path' = r.st.current_path
    /\ log' = r.st.log
    /\ logfile' = r.st.logfile
    /\ out' = r.out
    /\ raised' = r.raised
    /\ phase' = (IF r.raised = "none" THEN phase ELSE "aborted")
    /\ pc' = "idle"
    /\ UNCHANGED <<archive, vfs_path_extracted, updated, whole>>

\* execute_command down to its last line, r being what the whole of it gives:
\* the handler has run and printed, the line is not logged yet (a blank line
\* has returned at once, an exception has left)
Handled(r, blank) ==
    /\ tree' = r.st.tree
    /\ files' = r.st.files
    /\ current_path' = r.st.current_path
    /\ out' = r.out
    /\ raised' = r.raised
    /\ phase' = (IF r.raised = "none" THEN phase ELSE "aborted")
    /\ pc' = (IF r.raised # "none" \/ blank THEN "idle" ELSE "ran")
    /\ UNCHANGED <<archive, vfs_path_extracted, log, logfile, updated, whole>>

\* log_action("exit"), in the exit branch of execute_command and in the
\* except clause of run: cleanup comes next
LogExit(logged, printed) ==
    /\ log' = logged.log
    /\ logfile' = logged.logfile
    /\ out' = printed
    /\ raised' = "none"
    /\ pc' = "exit"
    /\ UNCHANGED <<archive, tree, vfs_path_extracted, files, current_path, phase,
                   updated, whole>>

\* execute_command on a line, up to the statement that logs
Execute(line) ==
    IF IsExit(line) THEN LogExit(log_action(State, Cmd_exit), <<>>)
    ELSE Handled(execute_command(State, line), IsBlank(line))

\* run_startup_script: the next line of the script is dispatched
ScriptRun ==
    /\ phase = "startup"
    /\ pc = "idle"
    /\ script # <<>>
    /\ Begin("script", Head(script))
    /\ Execute(Head(script))
    /\ script' = Tail(script)
    /\ UNCHANGED <<opened, ninputs>>

\* run: a line is read and dispatched
TypedRun(line) ==
    /\ phase = "prompt"
    /\ pc = "idle"
    /\ ninputs < MaxInputs
    /\ Begin("command", line)
    /\ Execute(line)
    /\ ninputs' = ninputs + 1
    /\ UNCHANGED <<script, opened>>

\* the last line of execute_command: log_action(command_line)
LogLine ==
    /\ pc = "ran"
    /\ log' = log_action(State, last.line).log
    /\ logfile' = log_action(State, last.line).logfile
    /\ pc' = "idle"
    /\ UNCHANGED <<archive, tree, vfs_path_extracted, files, current_path, out, raised,
                   phase, script, last, prev, opened, ninputs, updated, whole>>

\* run: input() raises EOFError or KeyboardInterrupt; the except clause
\* prints and logs the exit
InputEnds ==
    /\ phase = "prompt"
    /\ pc = "idle"
    /\ Begin("eof", <<>>)
    /\ LogExit(log_action(State, Cmd_exit), <<Message("Exiting shell.", <<>>)>>)
    /\ UNCHANGED <<script, opened, ninputs>>

\* the variables no statement of cleanup touches
session == <<files, current_path, log, logfile, out, script, last, prev, opened, ninputs>>

\* cleanup: os.path.exists(self.vfs_path_extracted), then shutil.make_archive
\* writes vfs_updated.zip
CloseArchive ==
    /\ pc = "exit"
    /\ IF vfs_path_extracted = <<>>
       THEN /\ raised' = "TypeError"
            /\ phase' = "aborted"
            /\ UNCHANGED <<pc, updated>>
       ELSE IF OsExists(tree, vfs_path_extracted[1])
       THEN /\ updated' = <<MakeArchive(tree)>>
            /\ pc' = "archived"
            /\ UNCHANGED <<raised, phase>>
       ELSE /\ pc' = "cleaned"
            /\ UNCHANGED <<raised, phase, updated>>
    /\ UNCHANGED <<archive, tree, vfs_path_extracted, whole>>
    /\ UNCHANGED session

\* shutil.move where os.rename can put vfs_updated.zip in the place of the
\* archive: one step
CloseRename ==
    /\ pc = "archived"
    /\ archive' = updated[1]
    /\ updated' = <<>>
    /\ pc' = "moved"
    /\ UNCHANGED <<tree, vfs_path_extracted, raised, phase, whole>>
    /\ UNCHANGED session

\* shutil.move where os.rename raises OSError (the archive is on another
\* file system than the directory the process runs in, or the host does not
\* rename onto an existing file): the archive is opened for writing and
\* vfs_updated.zip is copied into it
CloseCopyBegin ==
    /\ pc = "archived"
    /\ whole' = FALSE
    /\ pc' = "copying"
    /\ UNCHANGED <<archive, tree, vfs_path_extracted, raised, phase, updated>>
    /\ UNCHANGED session

\* the copy is complete and vfs_updated.zip is unlinked
CloseCopyEnd ==
    /\ pc = "copying"
    /\ archive' = updated[1]
    /\ whole' = TRUE
    /\ updated' = <<>>
    /\ pc' = "moved"
    /\ UNCHANGED <<tree, vfs_path_extracted, raised, phase>>
    /\ UNCHANGED session

\* shutil.rmtree(self.vfs_path_extracted)
CloseRemove ==
    /\ pc = "moved"
    /\ tree' = NoTree
    /\ pc' = "removed"
    /\ UNCHANGED <<archive, vfs_path_extracted, raised, phase, updated, whole>>
    /\ UNCHANGED session

\* self.vfs_path_extracted = None
CloseUnset ==
    /\ pc = "removed"
    /\ vfs_path_extracted' = <<>>
    /\ pc' = "cleaned"
    /\ UNCHANGED <<archive, tree, raised, phase, updated, whole>>
    /\ UNCHANGED session

\* sys.exit(0) after cleanup
SysExit ==
    /\ pc = "cleaned"
    /\ raised' = "SystemExit"
    /\ phase' = "exited"
    /\ pc' = "idle"
    /\ UNCHANGED <<archive, tree, vfs_path_extracted, updated, whole>>
    /\ UNCHANGED session

\* make_archive, move (the rename or the copy under way) or rmtree raises
\* OSError before it has changed anything more: the exception leaves cleanup
\* and nothing catches it
CloseFail ==
    /\ pc \in {"exit", "archived", "copying", "moved"}
    /\ vfs_path_extracted # <<>>
    /\ raised' = "OSError"
    /\ phase' = "aborted"
    /\ pc' = "failed"
    /\ UNCHANGED <<archive, tree, vfs_path_extracted, updated, whole>>
    /\ UNCHANGED session

NextSteps ==
    \/ ScriptRun
    \/ StartupDone
    \/ StartupInterrupt
    \/ \E line \in StepLines : TypedRun(line)
    \/ LogLine
    \/ InputEnds
    \/ CloseArchive
    \/ CloseRename
    \/ CloseCopyBegin
    \/ CloseCopyEnd
    \/ CloseRemove
    \/ CloseUnset
    \/ SysExit
    \/ CloseFail

SpecSteps == Init /\ [][NextSteps]_vars

\* ------------------------------------------------------------- properties
\* the command line the last operation gave to the dispatcher, split
LastRan == last.op \in {"command", "script"}
LastParts == SplitWs(Strip(last.line, Whitespace))
LastIs(cmd) == LastRan /\ LastParts # <<>> /\ LastParts[1] = cmd
LastArgs == Tail(LastParts)

\* the components of a path: "/a/b/" is "", "a", "b", ""
Comps(path) == Split(path, Slash)

\* the components that name a directory: those of the path without the
\* empty one a trailing "/" leaves
DirComps(path) ==
    LET c == Comps(path)
    IN  IF c[Len(c)] = <<>> THEN SubSeq(c, 1, Len(c) - 1) ELSE c

\* the index entries below the directory d
Below(index, d) ==
    {f \in index : /\ Len(Comps(f)) > Len(d)
                   /\ SubSeq(Comps(f), 1, Len(d)) = d
                   /\ Comps(f)[Len(d) + 1] # <<>>}

\* the immediate children of a directory, as ls names them
Children(index, d) ==
    {Comps(f)[Len(d) + 1] \o (IF Len(Comps(f)) > Len(d) + 1 THEN <<Slash>> ELSE <<>>)
        : f \in Below(index, d)}

\* the directory an ls lists
LsDir ==
    DirComps(normalize_path(IF LastArgs = <<>> THEN prev.current_path ELSE LastArgs[1],
                            prev.current_path))

\* C1: ls of a directory path prints exactly the immediate children of the
\* path that the index gives: each once, in increasing order, a directory
\* (with its own entry or only as the prefix of deeper entries) with a "/"
\* at its end and a file without, and nothing from deeper levels.
C1_LsPrintsImmediateChildren ==
    LastIs(Cmd_ls) =>
        /\ \A i \in 1..Len(out) : out[i].text = ""
        /\ {out[i].arg : i \in 1..Len(out)} = Children(prev.files, LsDir)
        /\ \A i \in 1..(Len(out) - 1) : StrLess(out[i].arg, out[i + 1].arg)
        /\ \A i \in 1..Len(out) : ~Contains(RStrip(out[i].arg, {Slash}), Slash)

\* an ls that prints a file and a directory, the directory known only as
\* the prefix of entries two levels further down
C1_Witness ==
    /\ LastIs(Cmd_ls)
    /\ \E i, j \in 1..Len(out) :
          /\ EndsWith(out[i].arg, <<Slash>>)
          /\ ~EndsWith(out[j].arg, <<Slash>>)
          /\ \A f \in Below(prev.files, LsDir) :
                Comps(f)[Len(LsDir) + 1] \o <<Slash>> = out[i].arg => Len(Comps(f)) > Len(LsDir) + 2

\* the argument of a cd and the path it is normalized to
CdArg == LastArgs[1]
CdTarget == normalize_path(CdArg, prev.current_path)

\* Exists of the index for a directory: some entry is the directory's own
\* ("/a/") or lies below it
ExistsDir(index, path) ==
    \E f \in index : /\ Len(Comps(f)) > Len(DirComps(path))
                     /\ SubSeq(Comps(f), 1, Len(DirComps(path))) = DirComps(path)

\* C2: cd with an argument other than "..": when the argument, normalized
\* against the current directory, is an existing directory of the index, the
\* current directory becomes that normalized path (never empty); otherwise it
\* stays and "cd: no such file or directory: <argument>" is printed.
C2_CdToDirectory ==
    (LastIs(Cmd_cd) /\ LastArgs # <<>> /\ CdArg # <<Dot, Dot>>) =>
        IF ExistsDir(prev.files, CdTarget)
        THEN current_path = CdTarget /\ current_path # <<>> /\ out = <<>>
        ELSE /\ current_path = prev.current_path
             /\ out = <<Message("cd: no such file or directory: ", CdArg)>>

\* a cd that moved to a directory whose normalized path is not the argument
C2_Witness ==
    /\ LastIs(Cmd_cd) /\ LastArgs # <<>> /\ CdArg # <<Dot, Dot>>
    /\ ExistsDir(prev.files, CdTarget)
    /\ current_path # prev.current_path
    /\ current_path # CdArg

\* the parent of a directory path: the path without its last name
Parent(path) ==
    LET c == DirComps(path)
        up == Join(SubSeq(c, 1, Len(c) - 1), Slash)
    IN  IF up = <<>> THEN <<Slash>> ELSE up

\* C3: "cd .." leaves the root where it is and moves any other current
\* directory to its parent; cd without an argument changes nothing.
C3_CdParent ==
    /\ (LastIs(Cmd_cd) /\ LastArgs # <<>> /\ CdArg = <<Dot, Dot>>) =>
            current_path = IF prev.current_path = <<Slash>> THEN <<Slash>>
                           ELSE Parent(prev.current_path)
    /\ (LastIs(Cmd_cd) /\ LastArgs = <<>>) => current_path = prev.current_path

\* a "cd .." from a directory of the first level to the root
C3_Witness ==
    /\ LastIs(Cmd_cd) /\ LastArgs # <<>> /\ CdArg = <<Dot, Dot>>
    /\ Len(DirComps(prev.current_path)) = 2
    /\ current_path = <<Slash>>

\* the names of a virtual path, from the root of the working area
Segs(path) == SelectSeq(Comps(path), LAMBDA c : c # <<>>)

\* the index entry of a file and of a directory of the working area
FileEntry(p) == <<Slash>> \o Join(p, Slash)
DirEntry(p) == <<Slash>> \o Join(p, Slash) \o <<Slash>>

IsFileAt(t, p) == p \in DOMAIN t /\ t[p].kind = "file"
IsDirAt(t, p) == p \in DOMAIN t /\ t[p].kind = "dir"

\* the source and the destination of a cp, normalized, as names
CpSrc == Segs(normalize_path(LastArgs[1], prev.current_path))
CpDest == Segs(normalize_path(LastArgs[2], prev.current_path))

\* the last operation was a cp of an existing file
CpOfFile == LastIs(Cmd_cp) /\ Len(LastArgs) = 2 /\ IsFileAt(prev.tree, CpSrc)

\* the destination holds the bytes of the source, every directory above it
\* exists, and the index has the destination and the directories cp made
CpDone ==
    /\ IsFileAt(tree, CpDest)
    /\ tree[CpDest].data = prev.tree[CpSrc].data
    /\ \A d \in Ancestors(CpDest) : IsDirAt(tree, d)
    /\ FileEntry(CpDest) \in files
    /\ \A d \in Ancestors(CpDest) \ DOMAIN prev.tree : DirEntry(d) \in files

C5_CpFailsClean ==
    (LastIs(Cmd_cp) /\ Len(LastArgs) = 2 /\ ~IsFileAt(prev.tree, CpSrc)) =>
        /\ tree = prev.tree
        /\ files = prev.files
        /\ raised = "none"
        /\ out = <<Message(IF IsDirAt(prev.tree, CpSrc)
                           THEN "cp: omitting directory"
                           ELSE "cp: cannot stat: No such file or directory",
                           normalize_path(LastArgs[1], prev.current_path))>>

\* a cp of a missing source to a destination in a directory that does not exist
C5_Witness ==
    /\ LastIs(Cmd_cp) /\ Len(LastArgs) = 2
    /\ CpSrc \notin DOMAIN prev.tree
    /\ \E d \in Ancestors(CpDest) : d \notin DOMAIN prev.tree
    /\ tree = prev.tree

\* the file a head reads, and its lines
HeadPath == Segs(normalize_path(LastArgs[1], prev.current_path))
HeadLines == SplitLines(prev.tree[HeadPath].data)

\* a printed line is the line of the file without the blanks at its end
PrintedLine(o, line) ==
    /\ o.text = ""
    /\ StartsWith(line, o.arg)
    /\ \A j \in (Len(o.arg) + 1)..Len(line) : line[j] \in Whitespace
    /\ (o.arg = <<>> \/ o.arg[Len(o.arg)] \notin Whitespace)

\* C6: head of an existing file of n lines prints the first min(n, 10)
\* lines in the order of the file; head of a path that does not exist prints
\* the cannot-open message and nothing else.
C6_HeadFirstTen ==
    (LastIs(Cmd_head) /\ LastArgs # <<>>) =>
        /\ IsFileAt(prev.tree, HeadPath) =>
              /\ Len(out) = (IF Len(HeadLines) < HeadLimit THEN Len(HeadLines) ELSE HeadLimit)
              /\ \A i \in 1..Len(out) : PrintedLine(out[i], HeadLines[i])
        /\ HeadPath \notin DOMAIN prev.tree =>
              out = <<Message("head: cannot open: No such file or directory", LastArgs[1])>>

\* a head of a file of more than ten lines
C6_Witness ==
    /\ LastIs(Cmd_head) /\ LastArgs # <<>>
    /\ IsFileAt(prev.tree, HeadPath)
    /\ Len(HeadLines) > HeadLimit
    /\ Len(out) = HeadLimit

\* C7: every command line that is not blank, whether its command is valid,
\* unknown or fails, adds exactly one entry to the log, and the action of
\* that entry is the line as it was given.
C7_EveryLineLoggedOnce ==
    (LastRan /\ Strip(last.line, Whitespace) # <<>>) =>
        log = Append(prev.log, [user |-> Username, action |-> last.line])

\* C8: however the session ends once the archive was opened (exit, end of
\* input, an interrupt, also while the start-up script runs), the exit has
\* been logged and the working area has been packed into the archive.
C8_EndsThroughShutdown ==
    (phase \in {"exited", "aborted"} /\ raised \in {"SystemExit", "KeyboardInterrupt"}) =>
        /\ log # <<>>
        /\ log[Len(log)].action = Cmd_exit
        /\ vfs_path_extracted = <<>>
        /\ tree = NoTree
        /\ archive = MakeArchive(prev.tree)

\* C9: cleanup on a session that is already closed completes normally and
\* changes nothing.
C9_CleanupIdempotent ==
    (last.op = "cleanup" /\ prev.vfs_path_extracted = <<>>) =>
        /\ raised = "none"
        /\ State = prev

\* C10: a session that ran no cp and was closed leaves an archive from which
\* the next session extracts the same working area (the same paths with the
\* same bytes) and builds the same index.
C10_RoundTrip ==
    \A k \in 2..Len(opened) :
        (opened[k - 1].closed /\ ~opened[k - 1].cp) =>
            /\ opened[k].tree = opened[k - 1].tree
            /\ opened[k].files = opened[k - 1].files

\* a second session on an archive that the first one, without a cp, wrote
\* with other members than it had found
C10_Witness ==
    /\ Len(opened) >= 2
    /\ opened[1].closed
    /\ ~opened[1].cp
    /\ last.op = "open"
    /\ archive \notin Archives
    /\ \E p \in DOMAIN tree : tree[p].kind = "dir" /\ p # <<>>

\* the host paths the last head or cp gave to the operating system: the file
\* head opens; the source cp looks at and, when the source is a file, the
\* directory cp makes and the destination it writes
HeadHost == get_full_path(normalize_path(LastArgs[1], prev.current_path), prev.current_path)
CpSrcHost == get_full_path(normalize_path(LastArgs[1], prev.current_path), prev.current_path)
CpDestHost == get_full_path(normalize_path(LastArgs[2], prev.current_path), prev.current_path)

HostPaths ==
    IF LastIs(Cmd_head) /\ LastArgs # <<>> THEN {HeadHost}
    ELSE IF LastIs(Cmd_cp) /\ Len(LastArgs) = 2
         THEN {CpSrcHost} \cup (IF OsIsFile(prev.tree, CpSrcHost)
                                 THEN {CpDestHost, DirName(CpDestHost)} ELSE {})
    ELSE {}

\* how many segments of a path argument are ".."
Ups(path) == Len(SelectSeq(Comps(path), LAMBDA c : c = <<Dot, Dot>>))

Entries(t) ==
    {DirEntry(p) : p \in {q \in DOMAIN t : q # <<>> /\ t[q].kind = "dir"}}
        \cup {FileEntry(p) : p \in {q \in DOMAIN t : t[q].kind = "file"}}

\* C12: as long as the working area exists (after start-up and after every
\* command, completed or not), the index is exactly the set of its entries:
\* no entry without an object, no object without its entry.
C12_IndexConsistent == vfs_path_extracted # <<>> => files = Entries(tree)

\* a cp has made a directory and a file, and the index has both
C12_Witness ==
    /\ CpOfFile
    /\ \E p \in DOMAIN tree \ DOMAIN prev.tree : tree[p].kind = "dir"
    /\ \E p \in DOMAIN tree \ DOMAIN prev.tree : tree[p].kind = "file"
    /\ files # prev.files
    /\ files = Entries(tree)

\* C13: the current directory always starts with "/", is not empty, has no
\* "." or ".." segment, no empty segment and no "/" at its end (it is its own
\* normal form), and is the root or a directory the index has.
C13_CwdNormalized ==
    /\ current_path # <<>>
    /\ StartsWith(current_path, <<Slash>>)
    /\ \A i \in 1..Len(Comps(current_path)) :
          Comps(current_path)[i] \notin {<<Dot>>, <<Dot, Dot>>}
    /\ current_path = <<Slash>> \/ \A i \in 2..Len(Comps(current_path)) :
                                       Comps(current_path)[i] # <<>>
    /\ current_path = <<Slash>> \/ current_path \o <<Slash>> \in files

\* a cd whose argument has "." and ".." segments and a "/" at its end has
\* moved to a directory two levels down
C13_Witness ==
    /\ LastIs(Cmd_cd) /\ LastArgs # <<>>
    /\ \E i \in 1..Len(Comps(CdArg)) : Comps(CdArg)[i] = <<Dot, Dot>>
    /\ \E i \in 1..Len(Comps(CdArg)) : Comps(CdArg)[i] = <<Dot>>
    /\ EndsWith(CdArg, <<Slash>>)
    /\ current_path # prev.current_path
    /\ Len(Segs(current_path)) = 2

\* s is t or a beginning of t
IsPrefix(s, t) == Len(s) <= Len(t) /\ SubSeq(t, 1, Len(s)) = s

\* C14: within a session the log only grows at its end, and whenever it has
\* grown the log file holds exactly the log.
C14_LogAppendOnlyMirrored ==
    last.op # "open" =>
        /\ IsPrefix(prev.log, log)
        /\ log # prev.log => logfile = log

\* the first entry of a second session: the file, which held the longer log
\* of the first session, now holds the one entry
C14_Witness ==
    /\ Len(opened) >= 2
    /\ Len(log) = 1
    /\ prev.log = <<>>
    /\ Len(prev.logfile) > 1
    /\ logfile = log

\* the path an ls resolves, and whether it is a directory by the existence
\* rule of the index (the root always is)
LsTarget ==
    normalize_path(IF LastArgs = <<>> THEN prev.current_path ELSE LastArgs[1],
                   prev.current_path)
LsTargetExists == LsTarget = <<Slash>> \/ ExistsDir(prev.files, LsTarget)

\* C17: an ls whose path is a file or does not exist is not answered like
\* the ls of an empty directory: it reports something, by a message or by
\* an exception.
C17_LsRequiresDirectory ==
    (LastIs(Cmd_ls) /\ ~LsTargetExists) => (out # <<>> \/ raised # "none")

\* whether the last command, a cd or a cp, failed
CdFailed == LastIs(Cmd_cd) /\ out # <<>>
CpFailed == LastIs(Cmd_cp) /\ (out # <<>> \/ raised # "none")

\* C19: a command other than exit ends without an exception and leaves the
\* session ready for the next one; ls, head, clear, an unknown command, a cd
\* that failed and a cp that failed leave the current directory, the index
\* and the working area as they were; a cd changes at most the current
\* directory; a cp that copied leaves the current directory and the source.
C19_FailuresRecoverable ==
    (LastRan /\ LastParts # <<>> /\ LastParts[1] # Cmd_exit) =>
        /\ raised = "none"
        /\ phase \in {"startup", "prompt"}
        /\ (LastParts[1] \notin {Cmd_cd, Cmd_cp} \/ CdFailed \/ CpFailed) =>
              /\ current_path = prev.current_path
              /\ files = prev.files
              /\ tree = prev.tree
        /\ LastIs(Cmd_cd) => files = prev.files /\ tree = prev.tree
        /\ (LastIs(Cmd_cp) /\ ~CpFailed) =>
              /\ current_path = prev.current_path
              /\ tree[CpSrc] = prev.tree[CpSrc]

\* C19 without the first two conjuncts: what the commands leave alone
C19_Frame ==
    (LastRan /\ LastParts # <<>> /\ LastParts[1] # Cmd_exit) =>
        /\ (LastParts[1] \notin {Cmd_cd, Cmd_cp} \/ CdFailed \/ CpFailed) =>
              /\ current_path = prev.current_path
              /\ files = prev.files
              /\ tree = prev.tree
        /\ LastIs(Cmd_cd) => files = prev.files /\ tree = prev.tree
        /\ (LastIs(Cmd_cp) /\ ~CpFailed) =>
              /\ current_path = prev.current_path
              /\ tree[CpSrc] = prev.tree[CpSrc]

\* C15: cleanup compresses the whole working area into a new archive, then
\* puts it in the place of the archive, then removes the working area; at
\* every point, also when a step fails, the file at the archive path is a
\* complete archive, the original or the new one; the working area is not
\* removed before the archive has been replaced.
C15_CloseOrderAtomic ==
    [][/\ whole'
       /\ updated' \notin {updated, <<>>} => updated' = <<MakeArchive(tree)>>
       /\ archive' # archive =>
             /\ updated = <<MakeArchive(tree)>>
             /\ archive' = MakeArchive(tree)
             /\ tree' = tree
       /\ (tree # NoTree /\ tree' = NoTree) =>
             /\ archive = MakeArchive(tree)
             /\ archive' = archive
             /\ vfs_path_extracted # <<>>]_vars

\* C15 without the completeness of the file: the order of the steps
C15_CloseOrder ==
    [][/\ updated' \notin {updated, <<>>} => updated' = <<MakeArchive(tree)>>
       /\ archive' # archive =>
             /\ updated = <<MakeArchive(tree)>>
             /\ archive' = MakeArchive(tree)
             /\ tree' = tree
       /\ (tree # NoTree /\ tree' = NoTree) =>
             /\ archive = MakeArchive(tree)
             /\ archive' = archive
             /\ vfs_path_extracted # <<>>]_vars

\* the entry log_action writes for an action
Entry(action) == [user |-> Username, action |-> action]

NonBlank(lines) == SelectSeq(lines, LAMBDA l : Strip(l, Whitespace) # <<>>)

\* the actions of the entries of a log
Actions(entries) == [i \in 1..Len(entries) |-> entries[i].action]

\* the lines of the start-up script of the session
ScriptLines == NonBlank(run_startup_script(opened[Len(opened)].tree))

\* C18: while the start-up script runs, the lines run so far are in the log,
\* in the order of the file, each logged before the next one starts; when
\* the start-up is over (no interrupt having ended it), the log begins with
\* all the lines of the script that are not blank; without a script nothing
\* runs and the start-up comes to the prompt without an error.
C18_ScriptRunsFirst ==
    /\ (phase = "startup" /\ pc = "idle") =>
          Actions(log) \o NonBlank(script) = ScriptLines
    /\ (phase # "startup" /\ raised # "KeyboardInterrupt") =>
          IsPrefix(ScriptLines, Actions(log))
    /\ (ScriptLines = <<>> /\ last.op \in {"open", "started"}) =>
          log = <<>> /\ raised = "none"

\* C18 at the first prompt: every line of the script has been logged
C18_AtPrompt ==
    /\ (phase = "startup" /\ pc = "idle") =>
          Actions(log) \o NonBlank(script) = ScriptLines
    /\ last.op = "started" => Actions(log) = ScriptLines /\ raised = "none"

====
